---------------------------- MODULE Spec2Model ----------------------------
(***************************************************************************)
(* Model of src/FinancialTableGenerator.jsx: the form state of the housing *)
(* expense report (period, year, items, notes, showReport), the handlers   *)
(* that change it, and the values derived from it on every render.         *)
(*                                                                         *)
(* Representation.                                                         *)
(*  - A JavaScript number is an exact rational [n, d] in lowest terms with *)
(*    d > 0; NaN is [n |-> 0, d |-> 0].  IEEE rounding, -0 and the         *)
(*    infinities are outside the model (no modelled input parses to them,  *)
(*    and every division of the code is guarded against a zero divisor).   *)
(*  - A string the code inspects character by character (an amount, a      *)
(*    period, a formatted number) is a sequence of one-character strings.  *)
(*    The literal chunks of a template literal are kept as single          *)
(*    elements; each of them begins with a character that is neither a     *)
(*    digit, a sign, a dot nor white space.                                *)
(*  - Names, the year and the notes are only compared for equality and are *)
(*    TLA+ strings.                                                        *)
(*                                                                         *)
(* Left out.                                                               *)
(*  - The "Insert Prompt" select (lines 192-196) only appends text to      *)
(*    notes; every value it produces can also be typed into the notes      *)
(*    textarea, which SetNotes models, and no property reads more of notes *)
(*    than whether it is empty.                                            *)
(*  - downloadPDF (lines 115-121) and the rendering of the chart read the  *)
(*    state and change none of it.                                         *)
(***************************************************************************)
EXTENDS Integers, Sequences, FiniteSets, TLC

VARIABLES initialPeriod, initialYear, period, year, items, notes, showReport

vars == <<initialPeriod, initialYear, period, year, items, notes, showReport>>

(***************************************************************************)
(* Numbers                                                                 *)
(***************************************************************************)
Abs(x) == IF x < 0 THEN -x ELSE x

RECURSIVE Gcd(_, _)
Gcd(a, b) == IF b = 0 THEN a ELSE Gcd(b, a % b)

Rat(n, d) ==
  LET s == IF d < 0 THEN -1 ELSE 1
      g == Gcd(Abs(n), Abs(d))
  IN  [n |-> (s * n) \div g, d |-> (s * d) \div g]

NaN == [n |-> 0, d |-> 0]
IsNaN(x) == x.d = 0
Num(k) == [n |-> k, d |-> 1]
Zero == Num(0)

Add(x, y) == IF IsNaN(x) \/ IsNaN(y) THEN NaN ELSE Rat(x.n * y.d + y.n * x.d, x.d * y.d)
Sub(x, y) == IF IsNaN(x) \/ IsNaN(y) THEN NaN ELSE Rat(x.n * y.d - y.n * x.d, x.d * y.d)
Mul(x, y) == IF IsNaN(x) \/ IsNaN(y) THEN NaN ELSE Rat(x.n * y.n, x.d * y.d)
\* x / y for a divisor that is neither NaN nor zero (all the code's divisions)
Div(x, y) == IF IsNaN(x) THEN NaN ELSE Rat(x.n * y.d, x.d * y.n)
AbsNum(x) == [n |-> Abs(x.n), d |-> x.d]

\* comparisons are false when either side is NaN
Gt(x, y) == ~IsNaN(x) /\ ~IsNaN(y) /\ x.n * y.d > y.n * x.d
Leq(x, y) == ~IsNaN(x) /\ ~IsNaN(y) /\ x.n * y.d <= y.n * x.d
Geq(x, y) == Leq(y, x)

\* ToBoolean of a number: false for 0 and NaN
Truthy(x) == ~IsNaN(x) /\ x.n # 0
\* x || 0
OrZero(x) == IF Truthy(x) THEN x ELSE Zero

(***************************************************************************)
(* Strings                                                                 *)
(***************************************************************************)
Digits == <<"0", "1", "2", "3", "4", "5", "6", "7", "8", "9">>
IsDigit(c) == c \in {"0", "1", "2", "3", "4", "5", "6", "7", "8", "9"}
DigitVal(c) == (CHOOSE k \in 1..10 : Digits[k] = c) - 1
IsSpace(c) == c \in {" ", "\t", "\n"}

RECURSIVE Pow10(_)
Pow10(k) == IF k = 0 THEN 1 ELSE 10 * Pow10(k - 1)

\* the decimal digits of a natural number
RECURSIVE DigitsOf(_)
DigitsOf(k) == IF k < 10 THEN <<Digits[k + 1]>> ELSE Append(DigitsOf(k \div 10), Digits[(k % 10) + 1])

\* s.replace(/,/g, '')
RECURSIVE StripCommas(_)
StripCommas(s) ==
  IF s = <<>> THEN <<>>
  ELSE IF Head(s) = "," THEN StripCommas(Tail(s))
       ELSE <<Head(s)>> \o StripCommas(Tail(s))

\* first index at or after i that holds no white space / no digit
RECURSIVE SkipSpaces(_, _)
SkipSpaces(s, i) == IF i <= Len(s) /\ IsSpace(s[i]) THEN SkipSpaces(s, i + 1) ELSE i

RECURSIVE SkipDigits(_, _)
SkipDigits(s, i) == IF i <= Len(s) /\ IsDigit(s[i]) THEN SkipDigits(s, i + 1) ELSE i

\* value of the digits s[i..j-1] (0 when there are none)
RECURSIVE DigitsValue(_, _, _)
DigitsValue(s, i, j) == IF i >= j THEN 0 ELSE DigitsValue(s, i, j - 1) * 10 + DigitVal(s[j - 1])

\* parseFloat(s): white space, sign, digits, fraction; the longest numeric
\* prefix decides and anything after it is ignored; NaN when there is none.
\* (Exponents and the literal Infinity are not part of the modelled alphabet.)
ParseFloat(s) ==
  LET a == SkipSpaces(s, 1)
      neg == a <= Len(s) /\ s[a] = "-"
      b == IF a <= Len(s) /\ s[a] \in {"-", "+"} THEN a + 1 ELSE a
      c == SkipDigits(s, b)
      dot == c <= Len(s) /\ s[c] = "."
      e == IF dot THEN SkipDigits(s, c + 1) ELSE c
      fl == IF dot THEN e - (c + 1) ELSE 0
      ip == DigitsValue(s, b, c)
      fp == IF dot THEN DigitsValue(s, c + 1, e) ELSE 0
      m == ip * Pow10(fl) + fp
  IN  IF c = b /\ fl = 0 THEN NaN
      ELSE Rat(IF neg THEN -m ELSE m, Pow10(fl))

\* |x| in hundredths, rounded to the nearest, a tie going to the larger
Hundredths(x) == (2 * 100 * Abs(x.n) + x.d) \div (2 * x.d)

TwoDigits(k) == <<Digits[(k \div 10) + 1], Digits[(k % 10) + 1]>>

\* x.toFixed(2)
ToFixed2(x) ==
  IF IsNaN(x) THEN <<"NaN">>
  ELSE LET h == Hundredths(x)
       IN  (IF x.n < 0 THEN <<"-">> ELSE <<>>) \o DigitsOf(h \div 100) \o <<".">> \o TwoDigits(h % 100)

\* digits with a comma before every group of three (Intl.NumberFormat, en-US)
RECURSIVE Group(_)
Group(ds) ==
  IF Len(ds) <= 3 THEN ds
  ELSE Group(SubSeq(ds, 1, Len(ds) - 3)) \o <<",">> \o SubSeq(ds, Len(ds) - 2, Len(ds))

\* formatAmount(amount): toFixed(2) split at the dot, the integer part grouped,
\* the decimals dropped when they are 00
formatAmount(amount) ==
  LET h == Hundredths(amount)
      intDigits == DigitsOf(h \div 100)
      sign == IF amount.n < 0 THEN <<"-">> ELSE <<>>
      formattedInt == sign \o Group(intDigits)
      decPart == TwoDigits(h % 100)
  IN  IF decPart = <<"0", "0">> THEN formattedInt ELSE formattedInt \o <<".">> \o decPart

(***************************************************************************)
(* Program constants                                                       *)
(***************************************************************************)
INPUT_CATEGORIES ==
  <<"Earnings", "Rent/Interest Paid", "Insurance Paid", "Maintenance", "Rates (Taxes)", "Principal Paid">>

Q1 == <<"Q", "1">>
Q2 == <<"Q", "2">>
Q3 == <<"Q", "3">>
Q4 == <<"Q", "4">>
SixMonths == <<"6", " ", "M", "o", "n", "t", "h", "s">>
FullYear == <<"F", "u", "l", "l", " ", "Y", "e", "a", "r">>
PERIOD_OPTIONS == <<Q1, Q2, Q3, Q4, SixMonths, FullYear>>

DefaultYear == "2024"

Range(s) == {s[i] : i \in DOMAIN s}

\* INPUT_CATEGORIES.map(name => ({ name, amount: '' }))
BlankItems == [i \in 1..Len(INPUT_CATEGORIES) |-> [name |-> INPUT_CATEGORIES[i], amount |-> <<>>]]

(***************************************************************************)
(* Bounds and inputs of the model                                          *)
(***************************************************************************)
\* most rows the model lets the user add to the six reserved ones
MaxAddedRows == 1

\* what the props may be: the defaults, and other strings a caller may pass
InitialProps ==
  { [period |-> FullYear, year |-> DefaultYear],
    [period |-> <<"Q", "5">>, year |-> "1999"],
    [period |-> <<"M", "o", "n", "t", "h", "l", "y">>, year |-> DefaultYear] }
YearInputs == {"2025"}
NotesInputs == {"", "obs"}

\* what the user leaves in an amount field (before the handler strips commas)
TypedUI == {<<>>, <<"1", ",", "0", "0", "0">>}
TypedItems == {<<>>, <<"1", ",", "0", "0", "0">>, <<"-", "9", "7", "0", "x">>}
TypedCalc ==
  {<<>>, <<"1", ",", "0", "0", "0">>, <<"3", "0", "0">>, <<"2", "0", "0">>,
   <<"-", "2", "5", ".", "5", "0">>}

(***************************************************************************)
(* Derived values (lines 49-110: recomputed from the state on every render)*)
(***************************************************************************)
\* first element of s named nm, or the "undefined" marker (Array.prototype.find)
RECURSIVE Find(_, _)
Find(s, nm) ==
  IF s = <<>> THEN [name |-> "undefined", value |-> NaN]
  ELSE IF Head(s).name = nm THEN Head(s) ELSE Find(Tail(s), nm)

\* s.find(n => n.name === nm)?.value || 0
ValueOf(s, nm) == OrZero(Find(s, nm).value)

parseItem(it) == [name |-> it.name, value |-> OrZero(ParseFloat(StripCommas(it.amount)))]

\* items.map(it => ({ name: it.name, value: parseFloat(...) || 0 }))
RECURSIVE parsedOf(_)
parsedOf(its) == IF its = <<>> THEN <<>> ELSE <<parseItem(Head(its))>> \o parsedOf(Tail(its))

incomeOf(ps) == ValueOf(ps, "Earnings")

\* slice(1) in place of slice(1,5): Principal Paid counted too
HousingNames_toEnd == Range(SubSeq(INPUT_CATEGORIES, 2, Len(INPUT_CATEGORIES)))

\* INPUT_CATEGORIES.slice(1,5)
HousingNames == Range(SubSeq(INPUT_CATEGORIES, 2, 5))

\* parsed.filter(n => slice.includes(n.name)).reduce((sum, n) => sum + n.value, 0)
RECURSIVE SumHousing(_, _)
SumHousing(ps, sum) ==
  IF ps = <<>> THEN sum
  ELSE IF Head(ps).name \in HousingNames THEN SumHousing(Tail(ps), Add(sum, Head(ps).value))
       ELSE SumHousing(Tail(ps), sum)

nonPrincipalOf(ps) == SumHousing(ps, Zero)

pctIncomeOf(inc, np) == IF Truthy(inc) THEN Mul(Div(np, inc), Num(100)) ELSE Zero

\* < in place of <=
getClassification_strict(percent) ==
  IF Gt(Num(30), percent) THEN "Ideal"
  ELSE IF Gt(Num(50), percent) THEN "Cost-burdened"
       ELSE "Severely cost-burdened"

getClassification(percent) ==
  IF Leq(percent, Num(30)) THEN "Ideal"
  ELSE IF Leq(percent, Num(50)) THEN "Cost-burdened"
       ELSE "Severely cost-burdened"

startsWith(s, c) == Len(s) >= 1 /\ s[1] = c

\* the four quarters compared by name in place of startsWith('Q')
weeksFor_exact(p) == IF p \in {Q1, Q2, Q3, Q4} THEN 13 ELSE IF p = SixMonths THEN 26 ELSE 52

weeksFor(p) == IF startsWith(p, "Q") THEN 13 ELSE IF p = SixMonths THEN 26 ELSE 52

weeklyRentOf(np, wk) == Div(np, Num(wk))
affordableWeeklyOf(inc, wk) == IF Truthy(inc) THEN Mul(Div(inc, Num(wk)), Rat(3, 10)) ELSE Zero

\* the outlay taken from the non-principal total in place of Rent/Interest Paid
finalItemsOf_outlayFromTotal(ps, np, wr, aw) ==
  ps \o << [name |-> "Total Non-Principal Housing Expense", value |-> np],
           [name |-> "Total Mortgage Outlay", value |-> Add(np, ValueOf(ps, "Principal Paid"))] >>
     \o << [name |-> "Estimated Weekly Rent", value |-> wr],
           [name |-> "Affordable Weekly Rent", value |-> aw] >>

\* the parsed items followed by the four derived rows
finalItemsOf(ps, np, wr, aw) ==
  ps \o << [name |-> "Total Non-Principal Housing Expense", value |-> np],
           [name |-> "Total Mortgage Outlay",
            value |-> Add(ValueOf(ps, "Rent/Interest Paid"), ValueOf(ps, "Principal Paid"))] >>
     \o << [name |-> "Estimated Weekly Rent", value |-> wr],
           [name |-> "Affordable Weekly Rent", value |-> aw] >>

\* a zero percent in place of the empty string when there is no income
rowOf_zeroPercent(it, inc, aw) ==
  IF it.name = "Estimated Weekly Rent"
  THEN LET diff == Sub(it.value, aw)
       IN  [name |-> it.name, value |-> it.value,
            percent |-> IF Gt(diff, Zero) THEN <<"Overspending by $">> \o formatAmount(diff)
                        ELSE <<"Under by $">> \o formatAmount(AbsNum(diff))]
  ELSE IF it.name \in {"Affordable Weekly Rent", "Earnings"}
       THEN [name |-> it.name, value |-> it.value, percent |-> <<>>]
       ELSE [name |-> it.name, value |-> it.value,
             percent |-> IF Truthy(inc) THEN ToFixed2(Mul(Div(it.value, inc), Num(100))) \o <<"%">>
                         ELSE <<"0", ".", "0", "0", "%">>]

\* one row of the table: a final item with its percent column
rowOf(it, inc, aw) ==
  IF it.name = "Estimated Weekly Rent"
  THEN LET diff == Sub(it.value, aw)
       IN  [name |-> it.name, value |-> it.value,
            percent |-> IF Gt(diff, Zero) THEN <<"Overspending by $">> \o formatAmount(diff)
                        ELSE <<"Under by $">> \o formatAmount(AbsNum(diff))]
  ELSE IF it.name \in {"Affordable Weekly Rent", "Earnings"}
       THEN [name |-> it.name, value |-> it.value, percent |-> <<>>]
       ELSE [name |-> it.name, value |-> it.value,
             percent |-> IF Truthy(inc) THEN ToFixed2(Mul(Div(it.value, inc), Num(100))) \o <<"%">>
                         ELSE <<>>]

\* finalItems.map(...)
RECURSIVE tableDataOf(_, _, _)
tableDataOf(fi, inc, aw) ==
  IF fi = <<>> THEN <<>> ELSE <<rowOf(Head(fi), inc, aw)>> \o tableDataOf(Tail(fi), inc, aw)

\* the threshold applied to the value in place of the percent
inChart_byValue(d) == d.name # "Earnings" /\ Geq(d.value, Num(4))

\* d.name !== 'Earnings' && parseFloat(d.percent) >= 4
inChart(d) == d.name # "Earnings" /\ Geq(ParseFloat(d.percent), Num(4))

\* tableData.filter(...)
RECURSIVE chartItemsOf(_)
chartItemsOf(td) ==
  IF td = <<>> THEN <<>>
  ELSE IF inChart(Head(td)) THEN <<Head(td)>> \o chartItemsOf(Tail(td))
       ELSE chartItemsOf(Tail(td))

\* if (pp && pp.value) in place of if (pp)
hasPrincipal_withValue(pp) == pp.name # "undefined" /\ Truthy(pp.value)

\* if (pp): find returned an element
hasPrincipal(pp) == pp.name # "undefined"

\* the narrative lines
templatesOf(ps, per, inc, np, pct, cls, wr, aw, wk) ==
  LET line1 == << <<"Non-Principal Housing Expense (">> \o per \o <<"): $">> \o formatAmount(np)
                  \o <<" (">> \o ToFixed2(pct) \o <<"% of income)">> >>
      line2 == << <<"Classification: ", cls>> >>
      pp == Find(ps, "Principal Paid")
      line3 == IF hasPrincipal(pp)
               THEN << <<"Principal Paid: $">> \o formatAmount(pp.value) \o <<" (">>
                       \o (IF Truthy(inc) THEN ToFixed2(Mul(Div(pp.value, inc), Num(100)))
                           ELSE <<"0", ".", "0", "0">>)
                       \o <<"% of income)">> >>
               ELSE <<>>
      totalDiff == Mul(Sub(wr, aw), Num(wk))
      line4 == << IF Gt(totalDiff, Zero)
                  THEN <<"Total overspending for ">> \o per \o <<": $">> \o formatAmount(totalDiff)
                  ELSE <<"Total savings for ">> \o per \o <<": $">> \o formatAmount(AbsNum(totalDiff)) >>
  IN  line1 \o line2 \o line3 \o line4

\* the totals of one evaluation of the component body (lines 49-68)
totalsOf(its, per) ==
  LET ps == parsedOf(its)
      inc == incomeOf(ps)
      np == nonPrincipalOf(ps)
      pct == pctIncomeOf(inc, np)
      wk == weeksFor(per)
  IN  [parsed |-> ps, income |-> inc, nonPrincipal |-> np, pctIncome |-> pct,
       classification |-> getClassification(pct), weeks |-> wk,
       weeklyRent |-> weeklyRentOf(np, wk), affordableWeekly |-> affordableWeeklyOf(inc, wk)]

\* what the current state renders
totals == totalsOf(items, period)
finalItems == LET t == totals IN finalItemsOf(t.parsed, t.nonPrincipal, t.weeklyRent, t.affordableWeekly)
tableData ==
  LET t == totals
  IN  tableDataOf(finalItemsOf(t.parsed, t.nonPrincipal, t.weeklyRent, t.affordableWeekly),
                  t.income, t.affordableWeekly)
chartItems == chartItemsOf(tableData)
templates ==
  LET t == totals
  IN  templatesOf(t.parsed, period, t.income, t.nonPrincipal, t.pctIncome, t.classification,
                  t.weeklyRent, t.affordableWeekly, t.weeks)

(***************************************************************************)
(* The state after construction, and the handlers                          *)
(***************************************************************************)
Init ==
  /\ \E props \in InitialProps : initialPeriod = props.period /\ initialYear = props.year
  /\ period = initialPeriod
  /\ year = initialYear
  /\ items = BlankItems
  /\ notes = ""
  /\ showReport = FALSE

\* the form with the defaults of the props
InitDefault ==
  /\ initialPeriod = FullYear
  /\ initialYear = DefaultYear
  /\ period = initialPeriod
  /\ year = initialYear
  /\ items = BlankItems
  /\ notes = ""
  /\ showReport = FALSE

\* the period select of the data entry view
SetPeriod ==
  /\ ~showReport
  /\ \E k \in DOMAIN PERIOD_OPTIONS : period' = PERIOD_OPTIONS[k]
  /\ UNCHANGED <<initialPeriod, initialYear, year, items, notes, showReport>>

\* the year input of the data entry view
SetYear ==
  /\ ~showReport
  /\ \E y \in YearInputs : year' = y
  /\ UNCHANGED <<initialPeriod, initialYear, period, items, notes, showReport>>

\* prev.map((it, i) => i === index ? { ...it, [field]: value } : it), field = 'amount'
handleChange(index, value) ==
  items' = [i \in DOMAIN items |-> IF i = index THEN [items[i] EXCEPT !.amount = value] ELSE items[i]]

\* an amount input's onChange: the field's text with its commas removed
EditAmount(Typed) ==
  /\ ~showReport
  /\ \E idx \in DOMAIN items, text \in Typed : handleChange(idx, StripCommas(text))
  /\ UNCHANGED <<initialPeriod, initialYear, period, year, notes, showReport>>

\* the new row put first in place of last
handleAddRow_prepend ==
  /\ ~showReport
  /\ Len(items) < Len(INPUT_CATEGORIES) + MaxAddedRows
  /\ items' = <<[name |-> "", amount |-> <<>>]>> \o items
  /\ UNCHANGED <<initialPeriod, initialYear, period, year, notes, showReport>>

handleAddRow ==
  /\ ~showReport
  /\ Len(items) < Len(INPUT_CATEGORIES) + MaxAddedRows
  /\ items' = Append(items, [name |-> "", amount |-> <<>>])
  /\ UNCHANGED <<initialPeriod, initialYear, period, year, notes, showReport>>

GenerateReport ==
  /\ ~showReport
  /\ showReport' = TRUE
  /\ UNCHANGED <<initialPeriod, initialYear, period, year, items, notes>>

EditData ==
  /\ showReport
  /\ showReport' = FALSE
  /\ UNCHANGED <<initialPeriod, initialYear, period, year, items, notes>>

\* the notes textarea of the report view
SetNotes ==
  /\ showReport
  /\ \E text \in NotesInputs : notes' = text
  /\ UNCHANGED <<initialPeriod, initialYear, period, year, items, showReport>>

\* setNotes('') left out
clearAll_keepsNotes ==
  /\ period' = initialPeriod
  /\ year' = initialYear
  /\ items' = BlankItems
  /\ showReport' = FALSE
  /\ UNCHANGED <<initialPeriod, initialYear, notes>>

\* the button is in both views
clearAll ==
  /\ period' = initialPeriod
  /\ year' = initialYear
  /\ items' = BlankItems
  /\ notes' = ""
  /\ showReport' = FALSE
  /\ UNCHANGED <<initialPeriod, initialYear>>

EditAmountUI == EditAmount(TypedUI)
EditAmountItems == EditAmount(TypedItems)
EditAmountCalc == EditAmount(TypedCalc)

\* the whole form
Next ==
  \/ SetPeriod
  \/ SetYear
  \/ EditAmountUI
  \/ handleAddRow
  \/ GenerateReport
  \/ EditData
  \/ SetNotes
  \/ clearAll

Spec == Init /\ [][Next]_vars

\* the item list and the report built from it, over more amounts
NextItems ==
  \/ EditAmountItems
  \/ handleAddRow
  \/ GenerateReport
  \/ EditData
  \/ clearAll

SpecItems == InitDefault /\ [][NextItems]_vars

\* the derivation over a wider range of amounts: the six reserved rows, every period
NextCalc ==
  \/ SetPeriod
  \/ EditAmountCalc
  \/ clearAll

SpecCalc == InitDefault /\ [][NextCalc]_vars

(***************************************************************************)
(* Properties                                                              *)
(***************************************************************************)
\* the number an amount field stands for, read off the item at a position
AmountAt(k) == OrZero(ParseFloat(StripCommas(items[k].amount)))

RECURSIVE SumAt(_)
SumAt(ks) == IF ks = {} THEN Zero ELSE LET k == CHOOSE x \in ks : TRUE IN Add(AmountAt(k), SumAt(ks \ {k}))

IsEmpty(str) == str = <<>>

\* C1: in every reachable state the non-principal housing total is the sum of
\* the amounts of exactly the items named Rent/Interest Paid, Insurance Paid,
\* Maintenance and Rates (Taxes); Earnings, Principal Paid and the added rows
\* contribute nothing.
C1_NonPrincipalIsFourItems ==
  totals.nonPrincipal =
    SumAt({k \in DOMAIN items :
             items[k].name \in {"Rent/Interest Paid", "Insurance Paid", "Maintenance", "Rates (Taxes)"}})

C1_Witness ==
  /\ Len(items) > Len(INPUT_CATEGORIES)
  /\ \A k \in DOMAIN items : AmountAt(k) # Zero
  /\ AmountAt(2) # AmountAt(3)
  /\ AmountAt(6) # AmountAt(1)
  /\ totals.nonPrincipal = Add(Add(AmountAt(2), AmountAt(3)), Add(AmountAt(4), AmountAt(5)))

\* C4 as stated: the percent of the Earnings and Affordable Weekly Rent rows is
\* the empty string, and when income is 0 the percent of every other row is
\* the empty string too.
C4_AllPercentsEmptyAtZeroIncome ==
  LET r == totals
      td == tableData
  IN  \A i \in DOMAIN td :
        /\ td[i].name \in {"Earnings", "Affordable Weekly Rent"} => IsEmpty(td[i].percent)
        /\ r.income = Zero => IsEmpty(td[i].percent)

\* C4 as amended: the percent of the Earnings and Affordable Weekly Rent rows
\* is always the empty string; when income is 0 the percent of every other row
\* except Estimated Weekly Rent is the empty string, and that row holds its
\* "Under by $..." or "Overspending by $..." text.
C4_PercentsEmptyExceptWeeklyRent ==
  LET r == totals
      td == tableData
  IN  \A i \in DOMAIN td :
        /\ td[i].name \in {"Earnings", "Affordable Weekly Rent"} => IsEmpty(td[i].percent)
        /\ (r.income = Zero /\ td[i].name # "Estimated Weekly Rent") => IsEmpty(td[i].percent)
        /\ td[i].name = "Estimated Weekly Rent"
             => (~IsEmpty(td[i].percent) /\ Head(td[i].percent) \in {"Under by $", "Overspending by $"})

C4_Witness ==
  /\ showReport
  /\ Len(items) > Len(INPUT_CATEGORIES)
  /\ AmountAt(1) = Zero
  /\ \A k \in 2..Len(items) : AmountAt(k) # Zero
  /\ LET td == tableData
     IN  \E i \in DOMAIN td : td[i].name = "Estimated Weekly Rent" /\ Head(td[i].percent) = "Overspending by $"

\* the percent a row shows, in signed hundredths, computed from the numbers
ShownPercent(row, inc) ==
  LET q == Mul(Div(row.value, inc), Num(100))
  IN  (IF q.n < 0 THEN -1 ELSE 1) * Hundredths(q)

\* a is b with some elements left out
RECURSIVE IsSubSeq(_, _)
IsSubSeq(a, b) ==
  IF a = <<>> THEN TRUE
  ELSE IF b = <<>> THEN FALSE
       ELSE IF Head(a) = Head(b) THEN IsSubSeq(Tail(a), Tail(b))
            ELSE IsSubSeq(a, Tail(b))

NoRatioNames == {"Earnings", "Estimated Weekly Rent", "Affordable Weekly Rent"}

\* C5: no chart slice is named Earnings; every slice is a row of the table (in
\* the table's order) whose percent column is a number, and that number, as
\* the table shows it, is at least 4; no row showing less than 4 is a slice.
C5_ChartRows ==
  LET r == totals
      td == tableData
      ch == chartItemsOf(td)
  IN  /\ IsSubSeq(ch, td)
      /\ r.income = Zero => ch = <<>>
      /\ \A i \in DOMAIN ch : ch[i].name \notin NoRatioNames
      /\ \A i \in DOMAIN td :
           (td[i].name \notin NoRatioNames /\ r.income # Zero)
             => LET shown == ShownPercent(td[i], r.income)
                    slice == \E j \in DOMAIN ch : ch[j] = td[i]
                IN  (slice => shown >= 400) /\ (shown < 400 => ~slice)

C5_Witness ==
  LET r == totals
      td == tableData
  IN  /\ Len(chartItemsOf(td)) >= 2
      /\ r.income # Zero
      /\ \E i \in DOMAIN td :
           /\ td[i].name \notin NoRatioNames
           /\ ShownPercent(td[i], r.income) > 0
           /\ ShownPercent(td[i], r.income) < 400
      /\ \E i \in DOMAIN td :
           td[i].name \notin NoRatioNames /\ ShownPercent(td[i], r.income) < 0

DerivedNames ==
  <<"Total Non-Principal Housing Expense", "Total Mortgage Outlay", "Estimated Weekly Rent", "Affordable Weekly Rent">>

\* C8: the report rows are the parsed items in input order followed by the
\* four derived rows in their fixed order, and the Total Mortgage Outlay value
\* is the Rent/Interest Paid value plus the Principal Paid value.
C8_ReportRows ==
  LET td == tableData
  IN  /\ Len(td) = Len(items) + 4
      /\ \A k \in DOMAIN items : td[k].name = items[k].name /\ td[k].value = AmountAt(k)
      /\ \A k \in 1..4 : td[Len(items) + k].name = DerivedNames[k]
      /\ td[Len(items) + 2].value = Add(AmountAt(2), AmountAt(6))

C8_Witness ==
  /\ showReport
  /\ Len(items) > Len(INPUT_CATEGORIES)
  /\ AmountAt(2) # Zero /\ AmountAt(6) # Zero /\ AmountAt(2) # AmountAt(6)
  /\ AmountAt(3) # Zero
  /\ AmountAt(Len(items)) # Zero
  /\ tableData[Len(items) + 2].value # totals.nonPrincipal

\* the bucket of np / inc * 100 for inc > 0, decided on the integers
Bucket(np, inc) ==
  IF 100 * np.n * inc.d <= 30 * inc.n * np.d THEN "Ideal"
  ELSE IF 100 * np.n * inc.d <= 50 * inc.n * np.d THEN "Cost-burdened"
       ELSE "Severely cost-burdened"

\* C2: getClassification maps a percent to Ideal up to and including 30, to
\* Cost-burdened above 30 up to and including 50, to Severely cost-burdened
\* above 50; and whenever income > 0 the reported classification is the
\* bucket of nonPrincipal / income * 100.
C2_ClassificationBucket ==
  /\ getClassification(Zero) = "Ideal"
  /\ getClassification(Num(30)) = "Ideal"
  /\ getClassification(Rat(300001, 10000)) = "Cost-burdened"
  /\ getClassification(Num(50)) = "Cost-burdened"
  /\ getClassification(Rat(500001, 10000)) = "Severely cost-burdened"
  /\ LET t == totals
     IN  /\ t.classification \in {"Ideal", "Cost-burdened", "Severely cost-burdened"}
         /\ Gt(t.income, Zero) => t.classification = Bucket(t.nonPrincipal, t.income)

C2_Witness ==
  LET t == totals
  IN  /\ Gt(t.income, Zero)
      /\ Mul(t.nonPrincipal, Num(100)) = Mul(t.income, Num(30))
      /\ t.nonPrincipal # Zero
      /\ t.classification = "Ideal"

\* the first chunk of the last narrative line
LastLineLabel(t) == Head(t[Len(t)])

\* C10: the last narrative line says "Total overspending" exactly when the
\* classification is not Ideal.
C10_OverspendingIffNotIdeal ==
  (LastLineLabel(templates) = "Total overspending for ") <=> (totals.classification # "Ideal")

\* C7: the narrative has 4 lines when the items hold a Principal Paid entry
\* and 3 otherwise; the lines are the non-principal expense, the
\* classification, the principal (when there is an entry, whatever its
\* amount) and the total overspend or savings, in that order.
C7_NarrativeLines ==
  LET t == templates
      hasPP == \E k \in DOMAIN items : items[k].name = "Principal Paid"
  IN  /\ Len(t) = IF hasPP THEN 4 ELSE 3
      /\ Head(t[1]) = "Non-Principal Housing Expense ("
      /\ Head(t[2]) = "Classification: "
      /\ hasPP => Head(t[3]) = "Principal Paid: $"
      /\ LastLineLabel(t) \in {"Total overspending for ", "Total savings for "}

C7_Witness ==
  /\ showReport
  /\ AmountAt(6) = Zero
  /\ AmountAt(1) # Zero /\ AmountAt(2) # Zero
  /\ Len(templates) = 4
  /\ Head(templates[3]) = "Principal Paid: $"

\* C3 as stated: 13 weeks for Q1..Q4, 26 for "6 Months", 52 for "Full Year"
\* and for every other period string.
C3_WeeksAsStated ==
  totals.weeks = IF period \in {Q1, Q2, Q3, Q4} THEN 13
                 ELSE IF period = SixMonths THEN 26 ELSE 52

\* C3 as amended: 13 weeks for Q1..Q4 and for every other period string that
\* begins with "Q", 26 for "6 Months", 52 for "Full Year" and for every other
\* string; every period value gets one of the three.
C3_WeeksByFirstLetter ==
  LET wk == totals.weeks
  IN  /\ wk \in {13, 26, 52}
      /\ period \in {Q1, Q2, Q3, Q4} => wk = 13
      /\ period = SixMonths => wk = 26
      /\ period = FullYear => wk = 52
      /\ period \notin Range(PERIOD_OPTIONS)
           => wk = IF period # <<>> /\ Head(period) = "Q" THEN 13 ELSE 52

C3_Witness ==
  /\ period \notin Range(PERIOD_OPTIONS)
  /\ Head(period) = "Q"
  /\ totals.weeks = 13
  /\ AmountAt(2) # Zero

SixBlankItems ==
  << [name |-> "Earnings", amount |-> <<>>], [name |-> "Rent/Interest Paid", amount |-> <<>>],
     [name |-> "Insurance Paid", amount |-> <<>>], [name |-> "Maintenance", amount |-> <<>>],
     [name |-> "Rates (Taxes)", amount |-> <<>>], [name |-> "Principal Paid", amount |-> <<>>] >>

\* C6: from any reachable state, clear leaves exactly the six reserved items
\* in order with empty amounts, period and year at their initial values, the
\* notes empty and the report hidden.
C6_ClearResets ==
  [][clearAll => /\ items' = SixBlankItems
                 /\ period' = initialPeriod /\ year' = initialYear
                 /\ initialPeriod' = initialPeriod /\ initialYear' = initialYear
                 /\ notes' = ""
                 /\ showReport' = FALSE]_vars

\* a state in which every part of the form differs from its initial value
C6_Witness ==
  /\ Len(items) > Len(INPUT_CATEGORIES)
  /\ \E k \in DOMAIN items : items[k].amount # <<>>
  /\ period # initialPeriod
  /\ year # initialYear
  /\ notes # ""
  /\ showReport
  /\ ENABLED clearAll

ItemListShape ==
  /\ Len(items) >= 6
  /\ \A k \in 1..6 : items[k].name = SixBlankItems[k].name
  /\ \A k \in DOMAIN items : k > 6 => items[k].name = ""
  /\ \A nm \in Range(INPUT_CATEGORIES) : Cardinality({k \in DOMAIN items : items[k].name = nm}) = 1

\* a step leaves the list, appends one blank row, resets it to the six blank
\* ones, or changes the amount of one entry and nothing else
ItemListStep ==
  \/ items' = items
  \/ items' = Append(items, [name |-> "", amount |-> <<>>])
  \/ items' = SixBlankItems
  \/ /\ Len(items') = Len(items)
     /\ \E i \in DOMAIN items :
          /\ items'[i].name = items[i].name
          /\ \A j \in DOMAIN items : j # i => items'[j] = items[j]

\* C9: the list always has at least six entries, the first six carry the
\* reserved names in their fixed order, each reserved name occurs once, every
\* later entry has an empty name, and an amount edit at index i changes only
\* the amount of entry i.
C9_ItemList ==
  /\ []ItemListShape
  /\ [][ItemListStep]_vars
  /\ [][(~showReport /\ items' # items /\ Len(items') = Len(items))
          => \A i \in DOMAIN items, text \in TypedUI :
               handleChange(i, StripCommas(text))
                 => /\ items'[i] = [name |-> items[i].name, amount |-> StripCommas(text)]
                    /\ \A j \in DOMAIN items : j # i => items'[j] = items[j]]_vars

C9_Witness ==
  /\ Len(items) > 6
  /\ items[Len(items)].amount # <<>>
  /\ items[1].amount # <<>>
  /\ items[2].amount = <<>>

==========================================================================
